---- MODULE Spec2Model ----
(***************************************************************************)
(* Model of the two CSV test-data generators of the repository:            *)
(*   scripts/generate-test-data.py  (class TestDataGenerator and main)     *)
(*   scripts/generate_test_csvs.py  (ten generate_*_csv functions)         *)
(*                                                                         *)
(* Field values are the strings the CSV writer emits.  Python's random     *)
(* module is a deterministic generator driven by its seed: it is modelled  *)
(* by a small congruential generator, one step per library call, so that   *)
(* a run is a function of the seed exactly as in the program.  What the    *)
(* program does not fix by the seed (the seed picked when none is given,   *)
(* the per-process string hash order of a set, I/O failures) is a          *)
(* nondeterministic choice.                                                *)
(***************************************************************************)
EXTENDS Integers, Sequences, FiniteSets, TLC

(***************************************************************************)
(* Bounds of the model.                                                    *)
(***************************************************************************)
\* largest --rows argument tried by the general specification
MaxRows == 3
\* the --rows arguments tried go down to -NegRows
NegRows == 1
\* seeds given on the command line range over 0..MaxSeed
MaxSeed == 24
\* seeds the program picks for itself (random.randint(1, 1000000)) range
\* over 1..MaxRandomSeed
MaxRandomSeed == 2
\* width of the numeric range of a fresh UPID (the program's is 900000)
UpidSpan == 64
\* width of the numeric range of a fresh SKU (the program's is 90000)
SkuSpan == 64
\* number of distinct per-process string hash orders considered
MaxHashSeed == 1
\* rows per file written by generate_test_csvs.py (the program's NUM_ROWS
\* is 10000)
MaxCsvRows == 4
\* initial states of the unseeded generator of generate_test_csvs.py
MaxCsvSeed == 12
\* the --rows argument of the duplicates specification
DupRows == 11
\* seeds of the duplicates specification range over 1..MaxDupSeed
MaxDupSeed == 7000
\* NUM_ROWS of the specification of generate_duplicates_csv
CsvDupRows == 201
\* generator states at the call of generate_duplicates_csv range over
\* 1..MaxCsvDupSeed
MaxCsvDupSeed == 2

(***************************************************************************)
(* Data pools of generate-test-data.py (lines 25-99).                      *)
(***************************************************************************)
PRODUCT_TYPES ==
    <<"T-Shirt", "Polo Shirt", "Dress Shirt", "Sweater", "Hoodie", "Jeans",
      "Chinos", "Shorts", "Dress Pants", "Joggers", "Jacket", "Blazer",
      "Coat", "Vest", "Parka", "Dress", "Skirt", "Blouse", "Cardigan",
      "Tank Top">>
PRODUCT_STYLES ==
    <<"Classic", "Slim Fit", "Regular Fit", "Oversized", "Fitted",
      "Vintage", "Modern", "Casual", "Formal", "Athletic", "Premium",
      "Essential", "Signature", "Limited Edition", "Heritage">>
PRODUCT_MATERIALS_PRIMARY ==
    <<"Cotton", "Polyester", "Wool", "Linen", "Silk", "Denim", "Leather",
      "Suede", "Cashmere", "Fleece">>
COLORS ==
    <<"Black", "White", "Gray", "Navy Blue", "Red", "Green", "Blue",
      "Yellow", "Orange", "Purple", "Pink", "Brown", "Beige", "Charcoal",
      "Olive", "Burgundy", "Teal", "Mint Green", "Sky Blue", "Coral">>
SIZES ==
    <<"XS", "S", "M", "L", "XL", "2XL", "3XL">>
CATEGORIES ==
    <<"T-Shirts", "Shirts", "Pants", "Outerwear", "Dresses", "Knitwear",
      "Activewear", "Accessories", "Footwear">>
SEASONS ==
    <<"Spring 2024", "Summer 2024", "Fall 2024", "Winter 2024",
      "Spring/Summer 2024", "Fall/Winter 2024", "SS24", "FW24", "AW24">>
CARE_CODES ==
    <<"MACHINE_WASH", "HAND_WASH", "DRY_CLEAN", "TUMBLE_DRY",
      "DO_NOT_BLEACH", "IRON_LOW_HEAT", "DO_NOT_IRON">>
ECO_CLAIMS ==
    <<"ORGANIC", "RECYCLED", "CARBON_NEUTRAL", "GOTS_CERTIFIED",
      "FAIR_TRADE", "OEKO_TEX", "BLUESIGN", "CRADLE_TO_CRADLE">>
PRODUCT_TYPES_lower ==
    <<"t-shirt", "polo shirt", "dress shirt", "sweater", "hoodie", "jeans",
      "chinos", "shorts", "dress pants", "joggers", "jacket", "blazer",
      "coat", "vest", "parka", "dress", "skirt", "blouse", "cardigan",
      "tank top">>
PRODUCT_STYLES_lower ==
    <<"classic", "slim fit", "regular fit", "oversized", "fitted",
      "vintage", "modern", "casual", "formal", "athletic", "premium",
      "essential", "signature", "limited edition", "heritage">>
PRODUCT_MATERIALS_PRIMARY_lower ==
    <<"cotton", "polyester", "wool", "linen", "silk", "denim", "leather",
      "suede", "cashmere", "fleece">>
MATERIALS ==
    <<<<"Cotton", 100>>, <<"Organic Cotton", 100>>, <<"Polyester", 100>>,
      <<"Recycled Polyester", 100>>, <<"Wool", 100>>,
      <<"Merino Wool", 100>>, <<"Cotton", 65>>, <<"Polyester", 35>>,
      <<"Cotton", 95>>, <<"Elastane", 5>>, <<"Polyester", 88>>,
      <<"Elastane", 12>>, <<"Wool", 80>>, <<"Nylon", 20>>, <<"Linen", 70>>,
      <<"Cotton", 30>>, <<"Viscose", 60>>, <<"Polyester", 40>>>>

(***************************************************************************)
(* Data pools of generate_test_csvs.py (lines 21-78).  Names shared with   *)
(* the other script carry the prefix CSV_.                                 *)
(***************************************************************************)
CSV_PRODUCT_TYPES ==
    <<"T-Shirt", "Polo Shirt", "Tank Top", "Hoodie", "Sweater", "Cardigan",
      "Jeans", "Pants", "Shorts", "Joggers", "Dress Pants", "Jacket",
      "Coat", "Parka", "Blazer", "Dress", "Skirt", "Blouse">>
CSV_MATERIALS ==
    <<"Cotton", "Polyester", "Wool", "Silk", "Linen", "Nylon", "Cashmere",
      "Leather", "Suede", "Denim", "Fleece", "Viscose", "Elastane",
      "Recycled Polyester">>
CSV_STYLES ==
    <<"Classic", "Vintage", "Modern", "Essential", "Premium", "Athletic",
      "Casual", "Formal", "Heritage", "Limited Edition", "Oversized",
      "Slim Fit", "Regular Fit">>
CSV_VALID_COLORS ==
    <<"Black", "White", "Navy", "Gray", "Beige">>
CSV_VALID_SIZES ==
    <<"XS", "S", "M", "L", "XL">>
CSV_VALID_CATEGORIES ==
    <<"Tops", "Bottoms", "Outerwear", "Dresses">>
CSV_UNMAPPED_COLORS ==
    <<"Coral", "Burgundy", "Orange", "Pink", "Navy Blue", "Light Gray",
      "Olive Green", "Mustard", "Teal", "Lavender", "Crimson", "Charcoal">>
CSV_UNMAPPED_SIZES ==
    <<"2XL", "3XL", "XXS", "One Size">>
CSV_UNMAPPED_CATEGORIES ==
    <<"Accessories", "Footwear", "T-Shirts", "Shirts", "Activewear",
      "Loungewear", "Swimwear", "Underwear">>
CSV_SEASONS ==
    <<"Spring 2024", "Fall 2024", "AW24", "FW24", "SS25">>
CSV_CARE_CODES ==
    <<"MACHINE_WASH", "HAND_WASH", "DRY_CLEAN", "DO_NOT_BLEACH",
      "TUMBLE_DRY", "DO_NOT_IRON", "IRON_LOW_HEAT">>
CSV_ECO_CLAIMS ==
    <<"ORGANIC", "RECYCLED", "FAIR_TRADE", "BLUESIGN", "OEKO_TEX",
      "GOTS_CERTIFIED", "CRADLE_TO_CRADLE">>
CSV_PRODUCT_TYPES_lower ==
    <<"t-shirt", "polo shirt", "tank top", "hoodie", "sweater", "cardigan",
      "jeans", "pants", "shorts", "joggers", "dress pants", "jacket",
      "coat", "parka", "blazer", "dress", "skirt", "blouse">>
CSV_MATERIALS_lower ==
    <<"cotton", "polyester", "wool", "silk", "linen", "nylon", "cashmere",
      "leather", "suede", "denim", "fleece", "viscose", "elastane",
      "recycled polyester">>
CSV_STYLES_lower ==
    <<"classic", "vintage", "modern", "essential", "premium", "athletic",
      "casual", "formal", "heritage", "limited edition", "oversized",
      "slim fit", "regular fit">>
get_base_headers ==
    <<"product_name", "upid", "sku", "description", "category_name",
      "season", "primary_image_url", "color_name", "size_name",
      "product_image_url", "material_1_name", "material_1_percentage",
      "material_2_name", "material_2_percentage", "material_3_name",
      "material_3_percentage", "care_codes", "eco_claims",
      "environment_score">>

(***************************************************************************)
(* Strings.                                                                *)
(***************************************************************************)
\* Python's  c * n  for a one-character string c
RECURSIVE Repeat(_, _)
Repeat(c, n) ==
    IF n = 0 THEN ""
    ELSE IF n % 2 = 0 THEN LET h == Repeat(c, n \div 2) IN h \o h
    ELSE c \o Repeat(c, n - 1)

\* Python's  ",".join(words)
RECURSIVE Join(_)
Join(words) ==
    IF Len(words) = 0 THEN ""
    ELSE IF Len(words) = 1 THEN words[1]
    ELSE words[1] \o "," \o Join(Tail(words))

\* the sequence seq without its i-th element
RemoveAt(seq, i) == SubSeq(seq, 1, i - 1) \o SubSeq(seq, i + 1, Len(seq))

\* the elements of a sequence
Range(seq) == {seq[i] : i \in DOMAIN seq}

RECURSIVE Sum(_)
Sum(seq) == IF Len(seq) = 0 THEN 0 ELSE Head(seq) + Sum(Tail(seq))

Min(a, b) == IF a < b THEN a ELSE b

(***************************************************************************)
(* The random module.  The generator state is a number; every library     *)
(* call advances it by one step and derives its result from the new state. *)
(* Each operator returns the result v and the state rng after the call.    *)
(***************************************************************************)
Step(s) == (75 * s + 74) % 65537

\* random.seed(seed)
SeedState(seed) == seed % 65536

\* random.random(), in hundredths: v < 30 stands for random.random() < 0.3
Random(s) == [v |-> Step(s) % 100, rng |-> Step(s)]

\* random.randint(a, b)
RandInt(a, b, s) == [v |-> a + (Step(s) % (b - a + 1)), rng |-> Step(s)]

\* random.choice(seq)
Choice(seq, s) == [v |-> seq[1 + (Step(s) % Len(seq))], rng |-> Step(s)]

\* random.sample(population, k)
RECURSIVE Sample(_, _, _)
Sample(population, k, s) ==
    IF k = 0 THEN [v |-> <<>>, rng |-> s]
    ELSE LET i == 1 + (Step(s) % Len(population))
             rest == Sample(RemoveAt(population, i), k - 1, Step(s))
         IN [v |-> <<population[i]>> \o rest.v, rng |-> rest.rng]

\* AndRandom with the condition left out: the draw alone decides
RandomBelow(cond, p, s) ==
    [v |-> Random(s).v < p, rng |-> Random(s).rng]

\* cond and random.random() < p/100 : the call is made only when cond holds
AndRandom(cond, p, s) ==
    [v |-> cond /\ Random(s).v < p, rng |-> IF cond THEN Random(s).rng ELSE s]

\* ChoiceIf with the condition left out: random.choice(seq) always
ChoiceAlways(cond, seq, s) ==
    [v |-> Choice(seq, s).v, rng |-> Choice(seq, s).rng]

\* random.choice(seq) if cond else ""
ChoiceIf(cond, seq, s) ==
    [v |-> IF cond THEN Choice(seq, s).v ELSE "",
     rng |-> IF cond THEN Choice(seq, s).rng ELSE s]

\* list(a_set): the iteration order of a set of strings depends on the
\* string hash seed of the process (PYTHONHASHSEED), fixed for one run
RECURSIVE SetOrder(_)
SetOrder(S) ==
    IF S = {} THEN <<>>
    ELSE LET x == CHOOSE y \in S : TRUE IN <<x>> \o SetOrder(S \ {x})

RECURSIVE Reverse(_)
Reverse(seq) ==
    IF Len(seq) = 0 THEN <<>> ELSE Reverse(Tail(seq)) \o <<Head(seq)>>

list(S, hs) == IF hs = 0 THEN SetOrder(S) ELSE Reverse(SetOrder(S))

(***************************************************************************)
(* class TestDataGenerator (generate-test-data.py).                        *)
(***************************************************************************)
\* first number of a fresh UPID and of a fresh SKU
UpidLo == 100000
SkuLo == 10000

\* generate_upid with the return of line 126 left out: the resampling
\* branch is taken and its choice drawn, then a fresh UPID is returned
generate_upid_no_return(allow_duplicate, upids, hs, s) ==
    LET dup   == allow_duplicate /\ upids # {}
        r     == Random(s)
        taken == dup /\ r.v < 30
        c     == Choice(list(upids, hs), r.rng)
        n     == RandInt(UpidLo, UpidLo + UpidSpan - 1,
                         IF taken THEN c.rng ELSE IF dup THEN r.rng ELSE s)
        upid  == "UPID-" \o ToString(n.v)
    IN [v |-> upid, rng |-> n.rng, pool |-> upids \cup {upid},
        resampled |-> taken]

\* generate_upid: v is the identifier returned, pool the set
\* generated_upids after the call, resampled tells whether v was drawn from
\* the pool
generate_upid(allow_duplicate, upids, hs, s) ==
    LET dup   == allow_duplicate /\ upids # {}
        r     == Random(s)
        c     == Choice(list(upids, hs), r.rng)
        n     == RandInt(UpidLo, UpidLo + UpidSpan - 1, IF dup THEN r.rng ELSE s)
        upid  == "UPID-" \o ToString(n.v)
    IN IF dup /\ r.v < 30
       THEN [v |-> c.v, rng |-> c.rng, pool |-> upids, resampled |-> TRUE]
       ELSE [v |-> upid, rng |-> n.rng, pool |-> upids \cup {upid},
             resampled |-> FALSE]

\* generate_sku without self.generated_skus.add(sku) of line 142
generate_sku_no_add(allow_duplicate, skus, hs, s) ==
    LET dup    == allow_duplicate /\ skus # {}
        r      == Random(s)
        c      == Choice(list(skus, hs), r.rng)
        prefix == Choice(<<"TSH", "PNT", "JKT", "DRS">>, IF dup THEN r.rng ELSE s)
        n      == RandInt(SkuLo, SkuLo + SkuSpan - 1, prefix.rng)
        sku    == "SKU-" \o prefix.v \o "-" \o ToString(n.v)
    IN IF dup /\ r.v < 30
       THEN [v |-> c.v, rng |-> c.rng, pool |-> skus, resampled |-> TRUE]
       ELSE [v |-> sku, rng |-> n.rng, pool |-> skus, resampled |-> FALSE]

\* generate_sku
generate_sku(allow_duplicate, skus, hs, s) ==
    LET dup    == allow_duplicate /\ skus # {}
        r      == Random(s)
        c      == Choice(list(skus, hs), r.rng)
        prefix == Choice(<<"TSH", "PNT", "JKT", "DRS">>, IF dup THEN r.rng ELSE s)
        n      == RandInt(SkuLo, SkuLo + SkuSpan - 1, prefix.rng)
        sku    == "SKU-" \o prefix.v \o "-" \o ToString(n.v)
    IN IF dup /\ r.v < 30
       THEN [v |-> c.v, rng |-> c.rng, pool |-> skus, resampled |-> TRUE]
       ELSE [v |-> sku, rng |-> n.rng, pool |-> skus \cup {sku},
             resampled |-> FALSE]

TooLongName == Repeat("A", 150)
SpecialCharsName == "Product@#$%^&*()"

\* generate_product_name
generate_product_name(invalid, s) ==
    LET error_type == Choice(<<"too_long", "empty", "special_chars">>, s)
        style      == Choice(PRODUCT_STYLES, s)
        ptype      == Choice(PRODUCT_TYPES, style.rng)
        material   == Choice(PRODUCT_MATERIALS_PRIMARY, ptype.rng)
        name_templates ==
            << style.v \o " " \o ptype.v,
               material.v \o " " \o ptype.v,
               style.v \o " " \o material.v \o " " \o ptype.v,
               ptype.v >>
    IN IF invalid
       THEN [v |-> CASE error_type.v = "too_long" -> TooLongName
                     [] error_type.v = "empty" -> ""
                     [] OTHER -> SpecialCharsName,
             rng |-> error_type.rng]
       ELSE Choice(name_templates, material.rng)

TooLongDescription == Repeat("D", 2500)

\* one of the five description templates of generate_description, filled in
FormatDescription(t, product, material, style, season) ==
    CASE t = 1 -> "A comfortable and stylish " \o product
                  \o " perfect for everyday wear. Made with high-quality "
                  \o material \o "."
      [] t = 2 -> "Discover the " \o style \o " " \o product
                  \o " crafted from premium " \o material
                  \o ". Ideal for any occasion."
      [] t = 3 -> "Elevate your wardrobe with this " \o style \o " " \o product
                  \o ". Features exceptional quality and durability."
      [] t = 4 -> "Classic " \o product
                  \o " design meets modern comfort. Made from sustainable "
                  \o material \o "."
      [] OTHER -> "The perfect " \o product \o " for the " \o season
                  \o " season. Combines style with functionality."

\* generate_description
generate_description(invalid, s) ==
    LET t        == Choice(<<1, 2, 3, 4, 5>>, s)
        product  == Choice(PRODUCT_TYPES_lower, t.rng)
        material == Choice(PRODUCT_MATERIALS_PRIMARY_lower, product.rng)
        style    == Choice(PRODUCT_STYLES_lower, material.rng)
        season   == Choice(<<"spring", "summer", "fall", "winter">>, style.rng)
    IN IF invalid
       THEN [v |-> TooLongDescription, rng |-> s]
       ELSE [v |-> FormatDescription(t.v, product.v, material.v, style.v,
                                     season.v),
             rng |-> season.rng]

\* generate_url with the test of line 192 inverted
generate_url_inverted(invalid, s) ==
    LET n      == RandInt(1000, 9999, s)
        domain == Choice(<<"cdn.example.com", "images.product-store.com",
                           "assets.fashion-brand.com">>, n.rng)
    IN IF ~invalid
       THEN [v |-> "not-a-valid-url", rng |-> s]
       ELSE [v |-> "https://" \o domain.v \o "/products/product-"
                   \o ToString(n.v) \o ".jpg",
             rng |-> domain.rng]

\* generate_url
generate_url(invalid, s) ==
    LET n      == RandInt(1000, 9999, s)
        domain == Choice(<<"cdn.example.com", "images.product-store.com",
                           "assets.fashion-brand.com">>, n.rng)
    IN IF invalid
       THEN [v |-> "not-a-valid-url", rng |-> s]
       ELSE [v |-> "https://" \o domain.v \o "/products/product-"
                   \o ToString(n.v) \o ".jpg",
             rng |-> domain.rng]

\* generate_materials: the names and the percentages, before padding
generate_materials(invalid, s) ==
    LET material_combo == Choice(MATERIALS, s)
        num_materials  == Choice(<<1, 2, 3>>, material_combo.rng)
        selected       == Sample(MATERIALS, Min(num_materials.v, Len(MATERIALS)),
                                 num_materials.rng)
        picked         == SubSeq(selected.v, 1, num_materials.v)
        raw            == [i \in DOMAIN picked |-> picked[i][2]]
        total          == Sum(raw)
        scaled         == [i \in DOMAIN raw |-> (raw[i] * 100) \div total]
        percentages    ==
            IF total > 0
            THEN [i \in DOMAIN scaled |->
                    IF i = Len(scaled)
                    THEN 100 - Sum(SubSeq(scaled, 1, Len(scaled) - 1))
                    ELSE scaled[i]]
            ELSE raw
    IN IF invalid
       THEN [materials |-> <<"Cotton", "Polyester">>,
             percentages |-> <<65, 50>>, rng |-> s]
       ELSE IF Len(material_combo.v) = 2
       THEN [materials |-> <<material_combo.v[1]>>,
             percentages |-> <<material_combo.v[2]>>,
             rng |-> material_combo.rng]
       ELSE [materials |-> [i \in DOMAIN picked |-> picked[i][1]],
             percentages |-> percentages, rng |-> selected.rng]

\* the  while len(materials) < 3  loop of generate_row
RECURSIVE Pad(_)
Pad(seq) == IF Len(seq) < 3 THEN Pad(Append(seq, "")) ELSE seq

\* the 19 keys of the record generate_row returns, also the fieldnames of
\* write_csv
fieldnames ==
    <<"product_name", "upid", "sku", "description", "category_name",
      "season", "primary_image_url", "color_name", "size_name",
      "product_image_url", "material_1_name", "material_1_percentage",
      "material_2_name", "material_2_percentage", "material_3_name",
      "material_3_percentage", "care_codes", "eco_claims",
      "environment_score">>

\* generate_row is modelled as the sequence of its statements.  Each
\* operator below takes the record st of the local variables (with the
\* generator state rng and the two identifier pools) as they are before
\* the statements it models and returns it as they are after them.

\* lines 239-254: the error disposition
row_disposition(row_number, scn, upids, skus, s0) ==
    LET roll   == Random(s0)
        rolled == scn \in {"missing_fields", "invalid_formats", "mixed"}
        s1     == IF rolled THEN roll.rng ELSE s0
        kind   == Choice(<<"duplicate", "missing", "invalid">>, s1)
    IN [rng |-> IF scn = "mixed" THEN kind.rng ELSE s1,
        upids |-> upids,
        skus |-> skus,
        row_number |-> row_number,
        should_have_error |->
            CASE scn = "duplicates" -> row_number > 10
              [] scn \in {"missing_fields", "invalid_formats"} -> roll.v < 20
              [] scn = "mixed" -> roll.v < 10
              [] OTHER -> FALSE,
        error_type |->
            CASE scn = "duplicates" -> "duplicate"
              [] scn = "missing_fields" -> "missing"
              [] scn = "invalid_formats" -> "invalid"
              [] scn = "mixed" -> kind.v
              [] OTHER -> "none",
        upid |-> "", sku |-> "", product_name |-> "", description |-> "",
        category |-> "", season |-> "", primary_image_url |-> "",
        color |-> "", size |-> "", product_image_url |-> "",
        materials |-> <<>>, percentages |-> <<>>,
        care_codes |-> "", eco_claims |-> "", environment_score |-> "",
        upid_resampled |-> FALSE, sku_resampled |-> FALSE,
        include_optional |-> FALSE, optional_roll |-> 0,
        invalid_name |-> FALSE, invalid_description |-> FALSE,
        invalid_primary_url |-> FALSE, invalid_image_url |-> FALSE,
        invalid_materials |-> FALSE]

\* lines 256-262: UPID and SKU
row_identifiers(st, hs) ==
    LET dup   == st.error_type = "duplicate"
        noIds == AndRandom(st.error_type = "missing", 50, st.rng)
        u     == generate_upid(dup, st.upids, hs, noIds.rng)
        k     == generate_sku(dup, st.skus, hs, u.rng)
    IN IF noIds.v
       THEN [st EXCEPT !.rng = noIds.rng, !.upid = "", !.sku = ""]
       ELSE [st EXCEPT !.rng = k.rng, !.upid = u.v, !.sku = k.v,
                       !.upids = u.pool, !.skus = k.pool,
                       !.upid_resampled = u.resampled,
                       !.sku_resampled = k.resampled]

\* lines 264-268: product name
row_product_name(st) ==
    LET noName  == AndRandom(st.error_type = "missing", 30, st.rng)
        badName == AndRandom(st.error_type = "invalid", 30, noName.rng)
        pn      == generate_product_name(badName.v, badName.rng)
    IN IF noName.v
       THEN [st EXCEPT !.rng = noName.rng, !.product_name = ""]
       ELSE [st EXCEPT !.rng = pn.rng, !.product_name = pn.v,
                       !.invalid_name = badName.v]

\* lines 270-273: include_optional and the description
row_description(st) ==
    LET roll    == Random(st.rng)
        include == roll.v < 50 \/ st.error_type = "invalid"
        badDesc == AndRandom(st.error_type = "invalid", 20, roll.rng)
        d       == generate_description(badDesc.v, badDesc.rng)
    IN IF include
       THEN [st EXCEPT !.rng = d.rng, !.include_optional = TRUE,
                       !.optional_roll = roll.v, !.description = d.v,
                       !.invalid_description = badDesc.v]
       ELSE [st EXCEPT !.rng = roll.rng, !.include_optional = FALSE,
                       !.optional_roll = roll.v, !.description = ""]

\* lines 274-275: category and season
row_category_season(st) ==
    LET category == ChoiceIf(st.include_optional, CATEGORIES, st.rng)
        season   == ChoiceIf(st.include_optional, SEASONS, category.rng)
    IN [st EXCEPT !.rng = season.rng, !.category = category.v,
                  !.season = season.v]

\* line 276: primary_image_url
row_primary_image_url(st) ==
    LET badUrl == AndRandom(st.error_type = "invalid", 20, st.rng)
        url    == generate_url(badUrl.v, badUrl.rng)
    IN IF st.include_optional
       THEN [st EXCEPT !.rng = url.rng, !.primary_image_url = url.v,
                       !.invalid_primary_url = badUrl.v]
       ELSE [st EXCEPT !.primary_image_url = ""]

\* lines 278-279: color and size
row_color_size(st) ==
    LET rollColor == Random(st.rng)
        color     == ChoiceIf(rollColor.v < 70, COLORS, rollColor.rng)
        rollSize  == Random(color.rng)
        size      == ChoiceIf(rollSize.v < 70, SIZES, rollSize.rng)
    IN [st EXCEPT !.rng = size.rng, !.color = color.v, !.size = size.v]

\* line 280: product_image_url
row_product_image_url(st) ==
    LET roll   == Random(st.rng)
        badUrl == AndRandom(st.error_type = "invalid", 20, roll.rng)
        url    == generate_url(badUrl.v, badUrl.rng)
    IN IF roll.v < 30
       THEN [st EXCEPT !.rng = url.rng, !.product_image_url = url.v,
                       !.invalid_image_url = badUrl.v]
       ELSE [st EXCEPT !.rng = roll.rng, !.product_image_url = ""]

\* lines 282-288: materials, padded to 3
row_materials(st) ==
    LET badMat == AndRandom(st.error_type = "invalid", 15, st.rng)
        m      == generate_materials(badMat.v, badMat.rng)
    IN [st EXCEPT !.rng = m.rng,
                  !.materials = Pad(m.materials),
                  !.percentages = Pad([i \in DOMAIN m.percentages |->
                                         ToString(m.percentages[i])]),
                  !.invalid_materials = badMat.v]

\* lines 291-292: care codes
row_care_codes(st) ==
    LET roll == Random(st.rng)
        n    == RandInt(1, 4, roll.rng)
        care == Sample(CARE_CODES, n.v, n.rng)
    IN IF roll.v < 60
       THEN [st EXCEPT !.rng = care.rng, !.care_codes = Join(care.v)]
       ELSE [st EXCEPT !.rng = roll.rng, !.care_codes = ""]

\* lines 294-295: eco claims
row_eco_claims(st) ==
    LET roll == Random(st.rng)
        n    == RandInt(1, 3, roll.rng)
        eco  == Sample(ECO_CLAIMS, n.v, n.rng)
    IN IF roll.v < 40
       THEN [st EXCEPT !.rng = eco.rng, !.eco_claims = Join(eco.v)]
       ELSE [st EXCEPT !.rng = roll.rng, !.eco_claims = ""]

\* line 297: environment score
row_environment_score(st) ==
    LET roll  == Random(st.rng)
        score == RandInt(50, 100, roll.rng)
    IN IF roll.v < 50
       THEN [st EXCEPT !.rng = score.rng,
                       !.environment_score = ToString(score.v)]
       ELSE [st EXCEPT !.rng = roll.rng, !.environment_score = ""]

\* lines 299-319: the record returned, with the generator state and the
\* pools after the call and the local decisions (locals)
row_return(st) ==
    [row |->
       [product_name |-> st.product_name,
        upid |-> st.upid,
        sku |-> st.sku,
        description |-> st.description,
        category_name |-> st.category,
        season |-> st.season,
        primary_image_url |-> st.primary_image_url,
        color_name |-> st.color,
        size_name |-> st.size,
        product_image_url |-> st.product_image_url,
        material_1_name |-> st.materials[1],
        material_1_percentage |-> st.percentages[1],
        material_2_name |-> st.materials[2],
        material_2_percentage |-> st.percentages[2],
        material_3_name |-> st.materials[3],
        material_3_percentage |-> st.percentages[3],
        care_codes |-> st.care_codes,
        eco_claims |-> st.eco_claims,
        environment_score |-> st.environment_score],
     rng |-> st.rng,
     upids |-> st.upids,
     skus |-> st.skus,
     locals |->
       [row_number |-> st.row_number,
        should_have_error |-> st.should_have_error,
        error_type |-> st.error_type,
        upid_resampled |-> st.upid_resampled,
        sku_resampled |-> st.sku_resampled,
        include_optional |-> st.include_optional,
        optional_roll |-> st.optional_roll,
        invalid_name |-> st.invalid_name,
        invalid_description |-> st.invalid_description,
        invalid_primary_url |-> st.invalid_primary_url,
        invalid_image_url |-> st.invalid_image_url,
        invalid_materials |-> st.invalid_materials]]

\* generate_row(row_number)
generate_row(row_number, scn, upids, skus, hs, s0) ==
    row_return(
     row_environment_score(
      row_eco_claims(
       row_care_codes(
        row_materials(
         row_product_image_url(
          row_color_size(
           row_primary_image_url(
            row_category_season(
             row_description(
              row_product_name(
               row_identifiers(
                row_disposition(row_number, scn, upids, skus, s0),
                hs))))))))))))

(***************************************************************************)
(* generate_test_csvs.py: value generators and generate_base_row.          *)
(***************************************************************************)
\* generate_upid(index)
csv_generate_upid(index) == "UPID-" \o ToString(100000 + index)

\* generate_sku(index)
csv_generate_sku(index, s) ==
    LET prefix == Choice(<<"TSH", "PNT", "JKT", "DRS", "SHT">>, s)
    IN [v |-> "SKU-" \o prefix.v \o "-" \o ToString(10000 + index),
        rng |-> prefix.rng]

\* generate_product_name()
csv_generate_product_name(s) ==
    LET style    == Choice(CSV_STYLES, s)
        material == Choice(CSV_MATERIALS, style.rng)
        product  == Choice(CSV_PRODUCT_TYPES, material.rng)
    IN [v |-> style.v \o " " \o material.v \o " " \o product.v,
        rng |-> product.rng]

\* one of the four DESCRIPTIONS templates, filled in
DESCRIPTIONS(t, material, product, season, style) ==
    CASE t = 1 -> "Classic " \o material \o " " \o product
                  \o " design meets modern comfort. Made from sustainable materials."
      [] t = 2 -> "The perfect " \o product \o " for the " \o season
                  \o " season. Combines style with functionality."
      [] t = 3 -> "Discover the " \o style \o " " \o product
                  \o " crafted from premium " \o material
                  \o ". Ideal for any occasion."
      [] OTHER -> "A comfortable and stylish " \o product
                  \o " perfect for everyday wear. Made with high-quality "
                  \o material \o "."

\* generate_description()
csv_generate_description(s) ==
    LET template == Choice(<<1, 2, 3, 4>>, s)
        material == Choice(CSV_MATERIALS_lower, template.rng)
        product  == Choice(CSV_PRODUCT_TYPES_lower, material.rng)
        season   == Choice(<<"spring", "summer", "fall", "winter">>, product.rng)
        style    == Choice(CSV_STYLES_lower, season.rng)
    IN [v |-> DESCRIPTIONS(template.v, material.v, product.v, season.v, style.v),
        rng |-> style.rng]

\* generate_image_url(product_id)
generate_image_url(product_id, s) ==
    LET domain == Choice(<<"cdn.example.com", "assets.fashion-brand.com",
                           "images.product-store.com">>, s)
    IN [v |-> "https://" \o domain.v \o "/products/product-"
              \o ToString(product_id) \o ".jpg",
        rng |-> domain.rng]

\* generate_base_row is modelled as the sequence of its statements, each
\* operator taking and returning the record st of the values computed so
\* far and the generator state rng.

\* lines 126-139: the pools and the include_* flags
base_includes(index, use_valid_values, s0) ==
    LET r1 == Random(s0)
        r2 == Random(r1.rng)
        r3 == Random(r2.rng)
        r4 == Random(r3.rng)
        r5 == Random(r4.rng)
        r6 == Random(r5.rng)
        r7 == Random(r6.rng)
        r8 == Random(r7.rng)
        r9 == Random(r8.rng)
    IN [rng |-> r9.rng,
        index |-> index,
        colors |-> IF use_valid_values THEN CSV_VALID_COLORS
                   ELSE CSV_UNMAPPED_COLORS,
        sizes |-> IF use_valid_values THEN CSV_VALID_SIZES
                  ELSE CSV_UNMAPPED_SIZES,
        categories |-> IF use_valid_values THEN CSV_VALID_CATEGORIES
                       ELSE CSV_UNMAPPED_CATEGORIES,
        include_description |-> r1.v > 30,
        include_category    |-> r2.v > 20,
        include_season      |-> r3.v > 40,
        include_images      |-> r4.v > 50,
        include_color       |-> r5.v > 20,
        include_size        |-> r6.v > 20,
        include_care        |-> r7.v > 40,
        include_eco         |-> r8.v > 40,
        include_env_score   |-> r9.v > 30,
        product_name |-> "", upid |-> "", sku |-> "", description |-> "",
        category_name |-> "", season |-> "", primary_image_url |-> "",
        color_name |-> "", size_name |-> "", product_image_url |-> "",
        material_1_name |-> "", material_1_percentage |-> "",
        material_2_name |-> "", material_2_percentage |-> "",
        care_codes |-> "", eco_claims |-> "", environment_score |-> ""]

\* lines 142-144: product_name, upid, sku
base_identity(st) ==
    LET name == csv_generate_product_name(st.rng)
        sku  == csv_generate_sku(st.index, name.rng)
    IN [st EXCEPT !.rng = sku.rng, !.product_name = name.v,
                  !.upid = csv_generate_upid(st.index), !.sku = sku.v]

\* line 145: description
base_description(st) ==
    LET d == csv_generate_description(st.rng)
    IN IF st.include_description
       THEN [st EXCEPT !.rng = d.rng, !.description = d.v]
       ELSE [st EXCEPT !.description = ""]

\* lines 146-147: category_name, season
base_category_season(st) ==
    LET cat  == ChoiceIf(st.include_category, st.categories, st.rng)
        seas == ChoiceIf(st.include_season, CSV_SEASONS, cat.rng)
    IN [st EXCEPT !.rng = seas.rng, !.category_name = cat.v,
                  !.season = seas.v]

\* line 148: primary_image_url
base_primary_image_url(st) ==
    LET url == generate_image_url(st.index, st.rng)
    IN IF st.include_images
       THEN [st EXCEPT !.rng = url.rng, !.primary_image_url = url.v]
       ELSE [st EXCEPT !.primary_image_url = ""]

\* lines 149-150: color_name, size_name
base_color_size(st) ==
    LET col == ChoiceIf(st.include_color, st.colors, st.rng)
        siz == ChoiceIf(st.include_size, st.sizes, col.rng)
    IN [st EXCEPT !.rng = siz.rng, !.color_name = col.v, !.size_name = siz.v]

\* line 151: product_image_url
base_product_image_url(st) ==
    LET roll == Random(st.rng)
        url  == generate_image_url(st.index + 1000, roll.rng)
    IN IF st.include_images
       THEN IF roll.v > 50
            THEN [st EXCEPT !.rng = url.rng, !.product_image_url = url.v]
            ELSE [st EXCEPT !.rng = roll.rng, !.product_image_url = ""]
       ELSE [st EXCEPT !.product_image_url = ""]

\* lines 152-153: the first material slot
base_material_1(st) ==
    LET name == Choice(CSV_MATERIALS, st.rng)
        pct  == Choice(<<100, 95, 80, 70, 60, 50, 40, 35, 30>>, name.rng)
    IN [st EXCEPT !.rng = pct.rng, !.material_1_name = name.v,
                  !.material_1_percentage = ToString(pct.v)]

\* lines 154-155: the second material slot
base_material_2(st) ==
    LET rollName == Random(st.rng)
        name     == ChoiceIf(rollName.v > 60, CSV_MATERIALS, rollName.rng)
        rollPct  == Random(name.rng)
        pct      == Choice(<<20, 15, 10, 5>>, rollPct.rng)
    IN IF rollPct.v > 60
       THEN [st EXCEPT !.rng = pct.rng, !.material_2_name = name.v,
                       !.material_2_percentage = ToString(pct.v)]
       ELSE [st EXCEPT !.rng = rollPct.rng, !.material_2_name = name.v,
                       !.material_2_percentage = ""]

\* line 158: care_codes
base_care_codes(st) ==
    LET n    == RandInt(1, 3, st.rng)
        care == Sample(CSV_CARE_CODES, n.v, n.rng)
    IN IF st.include_care
       THEN [st EXCEPT !.rng = care.rng, !.care_codes = Join(care.v)]
       ELSE [st EXCEPT !.care_codes = ""]

\* line 159: eco_claims
base_eco_claims(st) ==
    LET n   == RandInt(1, 3, st.rng)
        eco == Sample(CSV_ECO_CLAIMS, n.v, n.rng)
    IN IF st.include_eco
       THEN [st EXCEPT !.rng = eco.rng, !.eco_claims = Join(eco.v)]
       ELSE [st EXCEPT !.eco_claims = ""]

\* line 160: environment_score
base_environment_score(st) ==
    LET score == RandInt(50, 100, st.rng)
    IN IF st.include_env_score
       THEN [st EXCEPT !.rng = score.rng,
                       !.environment_score = ToString(score.v)]
       ELSE [st EXCEPT !.environment_score = ""]

\* lines 141-162: the dictionary returned, with the generator state
base_return(st) ==
    [row |->
       [product_name |-> st.product_name,
        upid |-> st.upid,
        sku |-> st.sku,
        description |-> st.description,
        category_name |-> st.category_name,
        season |-> st.season,
        primary_image_url |-> st.primary_image_url,
        color_name |-> st.color_name,
        size_name |-> st.size_name,
        product_image_url |-> st.product_image_url,
        material_1_name |-> st.material_1_name,
        material_1_percentage |-> st.material_1_percentage,
        material_2_name |-> st.material_2_name,
        material_2_percentage |-> st.material_2_percentage,
        material_3_name |-> "",
        material_3_percentage |-> "",
        care_codes |-> st.care_codes,
        eco_claims |-> st.eco_claims,
        environment_score |-> st.environment_score],
     rng |-> st.rng]

\* generate_base_row(index, use_valid_values)
generate_base_row(index, use_valid_values, s0) ==
    base_return(
     base_environment_score(
      base_eco_claims(
       base_care_codes(
        base_material_2(
         base_material_1(
          base_product_image_url(
           base_color_size(
            base_primary_image_url(
             base_category_season(
              base_description(
               base_identity(
                base_includes(index, use_valid_values, s0)))))))))))))

(***************************************************************************)
(* csv.DictWriter: the cells of one written line.                          *)
(***************************************************************************)
\* writer.writerow(row): one cell per fieldname, "" for a key the row lacks
writerow(names, row) ==
    [k \in DOMAIN names |-> IF names[k] \in DOMAIN row THEN row[names[k]] ELSE ""]

\* writerow raises ValueError for a row with a key that is not a fieldname
accepts(names, row) == DOMAIN row \subseteq Range(names)

(***************************************************************************)
(* State.                                                                  *)
(***************************************************************************)
VARIABLES
    script,            \* which of the two scripts is being run
    \* ---- generate-test-data.py
    scenario,          \* args.scenario
    rows,              \* args.rows
    seed_arg,          \* args.seed (NoSeed when --seed is not given)
    run,               \* 1 for the first invocation, 2 for its repetition
    hashseed,          \* string hash order of the running process
    pc,                \* position of main
    seed,              \* self.seed
    rng,               \* state of the module-level generator of random
    generated_upids,   \* self.generated_upids
    generated_skus,    \* self.generated_skus
    data,              \* the list built by generate()
    locals,            \* the local decisions of each generate_row call
    file,              \* the file at args.output
    exit_code,         \* exit status of the process, NotExited while it runs
    first,             \* what the first invocation left behind
    \* ---- generate_test_csvs.py
    NUM_ROWS,          \* the rows per file (line 23), fixed for a run
    csv_pc,            \* position of main
    csv_fn,            \* index of the generate_*_csv function being run
    csv_i,             \* loop variable i of that function
    csv_rng,           \* state of the module-level generator of random
    csv_base,          \* the last record generate_base_row returned
    csv_row,           \* the last record handed to writer.writerow
    csv_file,          \* the file the current function writes
    csv_exit           \* exit status of the process

gen_vars == <<scenario, rows, seed_arg, run, hashseed, pc, seed, rng,
              generated_upids, generated_skus, data, locals, file,
              exit_code, first>>
csv_vars == <<NUM_ROWS, csv_pc, csv_fn, csv_i, csv_rng, csv_base, csv_row, csv_file,
              csv_exit>>
vars == <<script, gen_vars, csv_vars>>

NoSeed == -1
NotExited == -1
NoFile == [exists |-> FALSE, lines |-> <<>>]
NoRow == [x \in {} |-> ""]

Scenarios == {"valid", "duplicates", "missing_fields", "invalid_formats", "mixed"}

\* main() of generate_test_csvs.py calls these in this order
CsvFunctions ==
    <<"generate_valid_csv", "generate_duplicates_csv", "generate_unmapped_csv",
      "generate_missing_required_csv", "generate_field_length_violations_csv",
      "generate_wrong_headers_csv", "generate_mixed_errors_csv",
      "generate_minimal_csv", "generate_empty_csv", "generate_large_mixed_csv">>

GenIdle ==
    /\ scenario = "valid" /\ rows = 0 /\ seed_arg = NoSeed /\ run = 0
    /\ hashseed = 0 /\ pc = "idle" /\ seed = 0 /\ rng = 0
    /\ generated_upids = {} /\ generated_skus = {}
    /\ data = <<>> /\ locals = <<>> /\ file = NoFile
    /\ exit_code = NotExited /\ first = [file |-> NoFile, exit_code |-> NotExited]

CsvIdle ==
    /\ NUM_ROWS = 0
    /\ csv_pc = "idle" /\ csv_fn = 0 /\ csv_i = 0 /\ csv_rng = 0
    /\ csv_base = NoRow /\ csv_row = NoRow /\ csv_file = NoFile
    /\ csv_exit = NotExited

\* a command line of generate-test-data.py
GenInit ==
    /\ script = "generate-test-data.py"
    /\ scenario \in Scenarios
    /\ rows \in (0 - NegRows)..MaxRows
    /\ seed_arg \in {NoSeed} \cup (0..MaxSeed)
    /\ run = 1
    /\ hashseed \in 0..MaxHashSeed
    /\ pc = "main"
    /\ seed = 0 /\ rng = 0
    /\ generated_upids = {} /\ generated_skus = {}
    /\ data = <<>> /\ locals = <<>>
    /\ file = NoFile
    /\ exit_code = NotExited
    /\ first = [file |-> NoFile, exit_code |-> NotExited]
    /\ CsvIdle

\* a start of generate_test_csvs.py; its generator is seeded by the system
CsvInit ==
    /\ script = "generate_test_csvs.py"
    /\ NUM_ROWS = MaxCsvRows
    /\ csv_pc = "main" /\ csv_fn = 0 /\ csv_i = 0
    /\ csv_rng \in 1..MaxCsvSeed
    /\ csv_base = NoRow /\ csv_row = NoRow /\ csv_file = NoFile
    /\ csv_exit = NotExited
    /\ GenIdle

Init == GenInit \/ CsvInit

(***************************************************************************)
(* generate-test-data.py: main, generate, write_csv.                       *)
(***************************************************************************)
\* the rejection of main lines 435-437 ending with sys.exit() and no status
RejectRowsStatusZero ==
    /\ script = "generate-test-data.py" /\ pc = "main"
    /\ rows < 1
    /\ pc' = "exit" /\ exit_code' = 0
    /\ UNCHANGED <<script, scenario, rows, seed_arg, run, hashseed, seed, rng,
                   generated_upids, generated_skus, data, locals, file, first,
                   csv_vars>>

\* main, lines 432-437: a row count below 1 is rejected
RejectRows ==
    /\ script = "generate-test-data.py" /\ pc = "main"
    /\ rows < 1
    /\ pc' = "exit" /\ exit_code' = 1
    /\ UNCHANGED <<script, scenario, rows, seed_arg, run, hashseed, seed, rng,
                   generated_upids, generated_skus, data, locals, file, first,
                   csv_vars>>

\* TestDataGenerator.__init__, called from main lines 443-447:
\* self.seed = seed or random.randint(1, 1000000); random.seed(self.seed)
Construct ==
    /\ script = "generate-test-data.py" /\ pc = "main"
    /\ rows >= 1
    /\ \E picked \in 1..MaxRandomSeed :
         seed' = IF seed_arg = NoSeed \/ seed_arg = 0 THEN picked ELSE seed_arg
    /\ rng' = SeedState(seed')
    /\ generated_upids' = {} /\ generated_skus' = {}
    /\ data' = <<>> /\ locals' = <<>>
    /\ pc' = "generate"
    /\ UNCHANGED <<script, scenario, rows, seed_arg, run, hashseed, file,
                   exit_code, first, csv_vars>>

\* the loop of generate() with generate_row(i) in place of generate_row(i + 1)
GenerateRowFromZero ==
    /\ script = "generate-test-data.py" /\ pc = "generate"
    /\ Len(data) < rows
    /\ \E g \in {generate_row(Len(data), scenario, generated_upids,
                              generated_skus, hashseed, rng)} :
          /\ data' = Append(data, g.row)
          /\ locals' = Append(locals, g.locals)
          /\ rng' = g.rng
          /\ generated_upids' = g.upids
          /\ generated_skus' = g.skus
    /\ UNCHANGED <<script, scenario, rows, seed_arg, run, hashseed, pc, seed,
                   file, exit_code, first, csv_vars>>

\* one iteration of the loop of generate(): generate_row(i + 1), append
GenerateRow ==
    /\ script = "generate-test-data.py" /\ pc = "generate"
    /\ Len(data) < rows
    /\ \E g \in {generate_row(Len(data) + 1, scenario, generated_upids,
                              generated_skus, hashseed, rng)} :
          /\ data' = Append(data, g.row)
          /\ locals' = Append(locals, g.locals)
          /\ rng' = g.rng
          /\ generated_upids' = g.upids
          /\ generated_skus' = g.skus
    /\ UNCHANGED <<script, scenario, rows, seed_arg, run, hashseed, pc, seed,
                   file, exit_code, first, csv_vars>>

\* write_csv line 348: open(output_file, 'w') creates or truncates the file
WriteOpen ==
    /\ script = "generate-test-data.py" /\ pc = "generate"
    /\ Len(data) = rows
    /\ file' = [exists |-> TRUE, lines |-> <<>>]
    /\ pc' = "writeheader"
    /\ UNCHANGED <<script, scenario, rows, seed_arg, run, hashseed, seed, rng,
                   generated_upids, generated_skus, data, locals, exit_code,
                   first, csv_vars>>

\* write_csv line 350: writer.writeheader()
WriteHeader ==
    /\ script = "generate-test-data.py" /\ pc = "writeheader"
    /\ file' = [file EXCEPT !.lines = Append(@, fieldnames)]
    /\ pc' = "writerows"
    /\ UNCHANGED <<script, scenario, rows, seed_arg, run, hashseed, seed, rng,
                   generated_upids, generated_skus, data, locals, exit_code,
                   first, csv_vars>>

\* write_csv line 351: writer.writerows(data), one record at a time
WriteRow ==
    /\ script = "generate-test-data.py" /\ pc = "writerows"
    /\ Len(file.lines) - 1 < Len(data)
    /\ LET row == data[Len(file.lines)]
       IN /\ accepts(fieldnames, row)
          /\ file' = [file EXCEPT !.lines = Append(@, writerow(fieldnames, row))]
    /\ UNCHANGED <<script, scenario, rows, seed_arg, run, hashseed, pc, seed,
                   rng, generated_upids, generated_skus, data, locals,
                   exit_code, first, csv_vars>>

\* write_csv lines 353-356 and main lines 453-456: the file is closed, the
\* statistics are printed and the process ends with status 0
WriteDone ==
    /\ script = "generate-test-data.py" /\ pc = "writerows"
    /\ Len(file.lines) - 1 = Len(data)
    /\ pc' = "exit" /\ exit_code' = 0
    /\ UNCHANGED <<script, scenario, rows, seed_arg, run, hashseed, seed, rng,
                   generated_upids, generated_skus, data, locals, file, first,
                   csv_vars>>

\* main lines 458-462: an exception raised by write_csv (an OSError of open
\* or of a write, a ValueError of writerow) is caught, reported, and the
\* process ends with status 1; nothing is done about the file
WriteFails ==
    /\ script = "generate-test-data.py"
    /\ \/ pc = "generate" /\ Len(data) = rows
       \/ pc \in {"writeheader", "writerows"}
    /\ pc' = "exit" /\ exit_code' = 1
    /\ UNCHANGED <<script, scenario, rows, seed_arg, run, hashseed, seed, rng,
                   generated_upids, generated_skus, data, locals, file, first,
                   csv_vars>>

\* the same command line is run a second time, in a new process
RunAgain ==
    /\ script = "generate-test-data.py" /\ pc = "exit" /\ run = 1
    /\ run' = 2
    /\ first' = [file |-> file, exit_code |-> exit_code]
    /\ hashseed' \in 0..MaxHashSeed
    /\ pc' = "main" /\ exit_code' = NotExited
    /\ seed' = 0 /\ rng' = 0
    /\ generated_upids' = {} /\ generated_skus' = {}
    /\ data' = <<>> /\ locals' = <<>>
    /\ UNCHANGED <<script, scenario, rows, seed_arg, file, csv_vars>>

(***************************************************************************)
(* generate_test_csvs.py: the loop bodies of the generate_*_csv functions. *)
(* Each returns the record of generate_base_row (base), the record handed  *)
(* to writer.writerow (row) and the generator state after the iteration.   *)
(***************************************************************************)
CsvFilenames ==
    <<"test-01-valid-data.csv", "test-02-duplicates.csv",
      "test-03-unmapped-values.csv", "test-04-missing-required.csv",
      "test-05-field-length-violations.csv", "test-06-wrong-headers.csv",
      "test-07-mixed-errors.csv", "test-08-minimal-required.csv",
      "test-09-empty.csv", "test-10-large-mixed.csv">>

wrong_headers ==
    <<"ProductName", "UPID", "SKU", "Description", "Category", "Season",
      "PrimaryImage", "ColorName", "SizeName", "ProductImage", "Material1",
      "Material1Pct", "Material2", "Material2Pct", "Material3",
      "Material3Pct", "CareCodes", "EcoClaims", "EnvScore">>

\* position of an element in a sequence
IndexOf(seq, x) == CHOOSE k \in DOMAIN seq : seq[k] = x

\* a loop body that writes the record of generate_base_row as it is
valid_row(b) == [base |-> b.row, row |-> b.row, rng |-> b.rng]

\* duplicates_row with the back-reference of line 200 taken 100 rows back
duplicates_row_back_100(i, b) ==
    LET sku == csv_generate_sku(i, b.rng)
    IN IF i > 0 /\ i % 100 = 0
       THEN [base |-> b.row,
             row |-> [b.row EXCEPT !.upid = csv_generate_upid(i - 100),
                                   !.sku = sku.v],
             rng |-> sku.rng]
       ELSE [base |-> b.row, row |-> b.row, rng |-> b.rng]

\* generate_duplicates_csv lines 198-201
duplicates_row(i, b) ==
    LET sku == csv_generate_sku(i, b.rng)
    IN IF i > 0 /\ i % 100 = 0
       THEN [base |-> b.row,
             row |-> [b.row EXCEPT !.upid = csv_generate_upid(i - 50),
                                   !.sku = sku.v],
             rng |-> sku.rng]
       ELSE [base |-> b.row, row |-> b.row, rng |-> b.rng]

\* generate_missing_required_csv lines 240-249
missing_required_row(i, b) ==
    LET error_type == i % 3
    IN [base |-> b.row,
        row |-> IF i % 5 = 0
                THEN CASE error_type = 0 -> [b.row EXCEPT !.product_name = ""]
                       [] error_type = 1 -> [b.row EXCEPT !.upid = "", !.sku = ""]
                       [] OTHER -> [b.row EXCEPT !.upid = ""]
                ELSE b.row,
        rng |-> b.rng]

\* generate_field_length_violations_csv lines 270-277
field_length_row(i, b) ==
    [base |-> b.row,
     row |-> IF i % 10 = 0
             THEN IF i % 20 = 0
                  THEN [b.row EXCEPT !.product_name = Repeat("A", 150)]
                  ELSE [b.row EXCEPT !.description = Repeat("B", 2500)]
             ELSE b.row,
     rng |-> b.rng]

\* wrong_headers_row with the two header lists zipped one position apart
wrong_headers_row_shifted(b) ==
    [base |-> b.row,
     row |-> [wrong \in Range(wrong_headers) |->
                b.row[get_base_headers[(IndexOf(wrong_headers, wrong) % 19) + 1]]],
     rng |-> b.rng]

\* generate_wrong_headers_csv lines 305-306
wrong_headers_row(b) ==
    [base |-> b.row,
     row |-> [wrong \in Range(wrong_headers) |->
                b.row[get_base_headers[IndexOf(wrong_headers, wrong)]]],
     rng |-> b.rng]

\* generate_base_row with use_valid_values drawn first: random.random() > p
\* (lines 325-326), or random.random() < p when below holds (lines 402-403)
base_row_if(i, p, below, roll) ==
    generate_base_row(i, IF below THEN roll.v < p ELSE roll.v > p, roll.rng)

\* generate_mixed_errors_csv lines 328-344
mixed_errors_row(i, b) ==
    LET error_roll == Random(b.rng)
        back       == RandInt(50, 100, error_roll.rng)
        half       == Random(error_roll.rng)
    IN CASE error_roll.v < 5 ->
              IF i > 100
              THEN [base |-> b.row,
                    row |-> [b.row EXCEPT !.upid = csv_generate_upid(i - back.v)],
                    rng |-> back.rng]
              ELSE [base |-> b.row, row |-> b.row, rng |-> error_roll.rng]
         [] error_roll.v >= 5 /\ error_roll.v < 10 ->
              [base |-> b.row,
               row |-> IF half.v > 50
                       THEN [b.row EXCEPT !.product_name = ""]
                       ELSE [b.row EXCEPT !.upid = "", !.sku = ""],
               rng |-> half.rng]
         [] error_roll.v >= 10 /\ error_roll.v < 12 ->
              [base |-> b.row,
               row |-> IF half.v > 50
                       THEN [b.row EXCEPT !.product_name = Repeat("X", 150)]
                       ELSE [b.row EXCEPT !.description = Repeat("Y", 2500)],
               rng |-> half.rng]
         [] OTHER -> [base |-> b.row, row |-> b.row, rng |-> error_roll.rng]

\* lines 176-178
generate_valid_csv(i, s) == valid_row(generate_base_row(i, TRUE, s))

\* lines 195-203
generate_duplicates_csv(i, s) ==
    duplicates_row(i, generate_base_row(i, TRUE, s))

\* generate_unmapped_csv with use_valid_values=True, as in the other
\* functions
generate_unmapped_csv_valid(i, s) ==
    valid_row(generate_base_row(i, TRUE, s))

\* lines 219-221
generate_unmapped_csv(i, s) == valid_row(generate_base_row(i, FALSE, s))

\* lines 237-251
generate_missing_required_csv(i, s) ==
    missing_required_row(i, generate_base_row(i, TRUE, s))

\* lines 267-279
generate_field_length_violations_csv(i, s) ==
    field_length_row(i, generate_base_row(i, TRUE, s))

\* lines 302-307
generate_wrong_headers_csv(i, s) ==
    wrong_headers_row(generate_base_row(i, TRUE, s))

\* lines 323-346
generate_mixed_errors_csv(i, s) ==
    mixed_errors_row(i, base_row_if(i, 50, FALSE, Random(s)))

\* lines 362-370
generate_minimal_csv(i, s) ==
    LET name     == csv_generate_product_name(s)
        sku      == csv_generate_sku(i, name.rng)
        material == Choice(CSV_MATERIALS, sku.rng)
        blank    == [header \in Range(get_base_headers) |-> ""]
    IN [base |-> NoRow,
        row |-> [blank EXCEPT !.product_name = name.v,
                              !.upid = csv_generate_upid(i),
                              !.sku = sku.v,
                              !.material_1_name = material.v,
                              !.material_1_percentage = "100"],
        rng |-> material.rng]

\* lines 400-404
generate_large_mixed_csv(i, s) ==
    valid_row(base_row_if(i, 30, TRUE, Random(s)))

\* the loop body of the fn-th function of main
LoopBody(fn, i, s) ==
    CASE fn = 1 -> generate_valid_csv(i, s)
      [] fn = 2 -> generate_duplicates_csv(i, s)
      [] fn = 3 -> generate_unmapped_csv(i, s)
      [] fn = 4 -> generate_missing_required_csv(i, s)
      [] fn = 5 -> generate_field_length_violations_csv(i, s)
      [] fn = 6 -> generate_wrong_headers_csv(i, s)
      [] fn = 7 -> generate_mixed_errors_csv(i, s)
      [] fn = 8 -> generate_minimal_csv(i, s)
      [] OTHER -> generate_large_mixed_csv(i, s)

\* HeadersOf with get_base_headers() given to every writer
HeadersAlwaysBase(fn) == get_base_headers

\* the fieldnames the fn-th function gives its DictWriter
HeadersOf(fn) == IF fn = 6 THEN wrong_headers ELSE get_base_headers

\* number of iterations of the loop of the fn-th function
RowsOf(fn) == IF fn = 9 THEN 0 ELSE NUM_ROWS

(***************************************************************************)
(* generate_test_csvs.py: main and the file handling of each function.     *)
(***************************************************************************)
\* main lines 413-421: the banner, then the first function
CsvMain ==
    /\ script = "generate_test_csvs.py" /\ csv_pc = "main"
    /\ csv_fn' = 1 /\ csv_pc' = "open"
    /\ UNCHANGED <<script, gen_vars, NUM_ROWS, csv_i, csv_rng, csv_base, csv_row,
                   csv_file, csv_exit>>

\* with open(filename, 'w', ...) of the current function
CsvOpen ==
    /\ script = "generate_test_csvs.py" /\ csv_pc = "open"
    /\ csv_file' = [exists |-> TRUE, name |-> CsvFilenames[csv_fn],
                    lines |-> <<>>]
    /\ csv_i' = 0 /\ csv_base' = NoRow /\ csv_row' = NoRow
    /\ csv_pc' = "writeheader"
    /\ UNCHANGED <<script, gen_vars, NUM_ROWS, csv_fn, csv_rng, csv_exit>>

\* writer.writeheader()
CsvWriteHeader ==
    /\ script = "generate_test_csvs.py" /\ csv_pc = "writeheader"
    /\ csv_file' = [csv_file EXCEPT !.lines = Append(@, HeadersOf(csv_fn))]
    /\ csv_pc' = "rows"
    /\ UNCHANGED <<script, gen_vars, NUM_ROWS, csv_fn, csv_i, csv_rng, csv_base,
                   csv_row, csv_exit>>

\* one iteration of  for i in range(NUM_ROWS)
CsvWriteRow ==
    /\ script = "generate_test_csvs.py" /\ csv_pc = "rows"
    /\ csv_i < RowsOf(csv_fn)
    /\ \E b \in {LoopBody(csv_fn, csv_i, csv_rng)} :
          /\ accepts(HeadersOf(csv_fn), b.row)
          /\ csv_base' = b.base
          /\ csv_row' = b.row
          /\ csv_rng' = b.rng
          /\ csv_file' = [csv_file EXCEPT
                            !.lines = Append(@, writerow(HeadersOf(csv_fn), b.row))]
    /\ csv_i' = csv_i + 1
    /\ UNCHANGED <<script, gen_vars, NUM_ROWS, csv_pc, csv_fn, csv_exit>>

\* the end of the with block and the print: the function returns, its
\* locals are gone, and main goes on to the next function, or ends with
\* status 0 after the last one
CsvClose ==
    /\ script = "generate_test_csvs.py" /\ csv_pc = "rows"
    /\ csv_i = RowsOf(csv_fn)
    /\ IF csv_fn < Len(CsvFunctions)
       THEN csv_fn' = csv_fn + 1 /\ csv_pc' = "open" /\ csv_exit' = csv_exit
       ELSE csv_fn' = csv_fn /\ csv_pc' = "exit" /\ csv_exit' = 0
    /\ csv_base' = NoRow /\ csv_row' = NoRow
    /\ UNCHANGED <<script, gen_vars, NUM_ROWS, csv_i, csv_rng, csv_file>>

\* an exception raised inside the with block (an OSError of a write): no
\* function and not main catches it, the process ends with status 1
CsvFails ==
    /\ script = "generate_test_csvs.py"
    /\ csv_pc \in {"writeheader", "rows"}
    /\ csv_pc' = "exit" /\ csv_exit' = 1
    /\ UNCHANGED <<script, gen_vars, NUM_ROWS, csv_fn, csv_i, csv_rng, csv_base,
                   csv_row, csv_file>>

Next ==
    \/ RejectRows
    \/ Construct
    \/ GenerateRow
    \/ WriteOpen
    \/ WriteHeader
    \/ WriteRow
    \/ WriteDone
    \/ WriteFails
    \/ RunAgain
    \/ CsvMain
    \/ CsvOpen
    \/ CsvWriteHeader
    \/ CsvWriteRow
    \/ CsvClose
    \/ CsvFails

Spec == Init /\ [][Next]_vars

(***************************************************************************)
(* Properties.                                                             *)
(***************************************************************************)
\* the two invocations of generate-test-data.py have both ended normally
BothRunsDone ==
    /\ script = "generate-test-data.py"
    /\ run = 2 /\ pc = "exit" /\ exit_code = 0 /\ first.exit_code = 0

\* C1: two runs of generate-test-data.py with the same scenario, row count
\* and seed (any seed given on the command line, 0 included) write the same
\* file.
C1_SameSeedSameFile ==
    (BothRunsDone /\ seed_arg # NoSeed) => file = first.file

\* the percentages of a record that are not empty, as numbers
PercentagesOf(row) ==
    LET cells == <<row.material_1_percentage, row.material_2_percentage,
                   row.material_3_percentage>>
        value(c) == IF c = "" THEN 0
                    ELSE CHOOSE n \in 0..200 : ToString(n) = c
    IN value(cells[1]) + value(cells[2]) + value(cells[3])

\* C2: in every record generate_row emits without the invalid material
\* disposition, the non-empty material percentages sum to exactly 100.
C2_PercentagesSumTo100 ==
    \A i \in DOMAIN data :
        ~locals[i].invalid_materials => PercentagesOf(data[i]) = 100

\* a record that names its product and carries a UPID or a SKU
Identified(row) ==
    /\ ~(row.upid = "" /\ row.sku = "")
    /\ row.product_name # ""

\* C3: with scenario=valid no generated record has both upid and sku empty
\* and none has an empty product_name; the same holds for every record
\* generate_valid_csv writes.
C3_ValidRowsIdentified ==
    /\ (script = "generate-test-data.py" /\ scenario = "valid")
         => \A i \in DOMAIN data : Identified(data[i])
    /\ (script = "generate_test_csvs.py" /\ csv_fn = 1 /\ csv_row # NoRow)
         => Identified(csv_row)

\* C3 witness: a valid-scenario run that has generated several records
C3_Witness ==
    /\ script = "generate-test-data.py" /\ scenario = "valid"
    /\ Len(data) >= 2 /\ Len(data) = rows

\* a record that carries none of the injected errors
NoInjectedError(row) ==
    /\ row.upid # "" /\ row.sku # "" /\ row.product_name # ""
    /\ Len(row.product_name) <= 100
    /\ Len(row.description) <= 2000
    /\ row.primary_image_url # "not-a-valid-url"
    /\ row.product_image_url # "not-a-valid-url"
    /\ ~(row.material_1_percentage = "65" /\ row.material_2_percentage = "50")

\* C4: in scenarios missing_fields, invalid_formats and mixed a record
\* whose should-error decision is false carries no injected error.
C4_NoErrorDecisionNoError ==
    (script = "generate-test-data.py"
       /\ scenario \in {"missing_fields", "invalid_formats", "mixed"})
      => \A i \in DOMAIN data :
            ~locals[i].should_have_error => NoInjectedError(data[i])

\* C5: with scenario=valid the upid values of the generated records are
\* pairwise distinct, and so are the sku values.
C5_ValidIdentifiersDistinct ==
    (script = "generate-test-data.py" /\ scenario = "valid")
      => \A i, j \in DOMAIN data :
            i # j => data[i].upid # data[j].upid /\ data[i].sku # data[j].sku

\* the 19 field names of a record, as the data model lists them
RecordFields ==
    {"product_name", "upid", "sku", "description", "category_name", "season",
     "primary_image_url", "color_name", "size_name", "product_image_url",
     "material_1_name", "material_1_percentage", "material_2_name",
     "material_2_percentage", "material_3_name", "material_3_percentage",
     "care_codes", "eco_claims", "environment_score"}

\* the header line of generate-test-data.py's output is written
HeaderWritten == pc \in {"writerows", "exit"} /\ Len(file.lines) >= 1

\* the header line of the file generate_test_csvs.py is writing is written
CsvHeaderWritten == csv_pc \in {"rows", "exit"} /\ Len(csv_file.lines) >= 1

\* C6 as claimed: every record of either script, in every scenario, has
\* exactly the 19 field names as its keys, and they are the header columns
\* written.
C6_RecordKeysAreTheFieldNames ==
    /\ \A i \in DOMAIN data :
          /\ DOMAIN data[i] = RecordFields
          /\ HeaderWritten => DOMAIN data[i] = Range(file.lines[1])
    /\ csv_row # NoRow =>
          /\ DOMAIN csv_row = RecordFields
          /\ DOMAIN csv_row = Range(csv_file.lines[1])

\* C6 amended: every record handed to a writer has exactly 19 keys and
\* they are the 19 distinct header columns written; they are the 19 field
\* names in every scenario except generate_wrong_headers_csv, whose records
\* are keyed by the 19 renamed headers, none of which is a field name,
\* while the record generate_base_row returned there has the field names.
C6_RecordKeysAreTheHeader ==
    /\ \A i \in DOMAIN data :
          /\ DOMAIN data[i] = RecordFields
          /\ HeaderWritten => DOMAIN data[i] = Range(file.lines[1])
    /\ HeaderWritten => Len(file.lines[1]) = 19
    /\ CsvHeaderWritten =>
          /\ Len(csv_file.lines[1]) = 19
          /\ Cardinality(Range(csv_file.lines[1])) = 19
          /\ csv_fn # 6 => Range(csv_file.lines[1]) = RecordFields
          /\ csv_fn = 6 => Range(csv_file.lines[1]) \cap RecordFields = {}
    /\ csv_row # NoRow =>
          /\ Cardinality(DOMAIN csv_row) = 19
          /\ DOMAIN csv_row = Range(csv_file.lines[1])
          /\ csv_fn # 6 => DOMAIN csv_row = RecordFields
          /\ csv_fn = 6 => /\ DOMAIN csv_row \cap RecordFields = {}
                           /\ DOMAIN csv_base = RecordFields

\* C6 witness: generate_wrong_headers_csv has written a record
C6_Witness ==
    /\ script = "generate_test_csvs.py" /\ csv_fn = 6
    /\ csv_row # NoRow /\ Len(csv_file.lines) >= 2

\* C7: after a run of either script the output file holds the header and
\* all requested rows, or it has not been created or replaced.
C7_NoTruncatedFile ==
    /\ (script = "generate-test-data.py" /\ pc = "exit") =>
          \/ file = (IF run = 1 THEN NoFile ELSE first.file)
          \/ /\ file.exists
             /\ Len(file.lines) = rows + 1
             /\ file.lines[1] = fieldnames
    /\ (script = "generate_test_csvs.py" /\ csv_pc = "exit") =>
          /\ csv_file.exists
          /\ Len(csv_file.lines) = RowsOf(csv_fn) + 1

\* the four optional fields generate_row guards with include_optional
OptionalFields == {"description", "category_name", "season", "primary_image_url"}

\* C8 as claimed: whether an optional descriptive field of a record is
\* filled is decided by the inclusion draw alone (filled exactly when the
\* draw is below 50%), whatever the error kind of the record.
C8_InclusionIgnoresErrorKind ==
    \A i \in DOMAIN data : \A f \in OptionalFields :
        (data[i][f] # "") <=> (locals[i].optional_roll < 50)

\* C8 amended: description, category_name, season and primary_image_url
\* are filled or left empty together, by one decision per record: all four
\* are filled when the 50% draw succeeds or the error kind is invalid, and
\* all four are empty otherwise.
C8_OptionalFieldsTogether ==
    \A i \in DOMAIN data : \A f \in OptionalFields :
        (data[i][f] # "") <=>
            (locals[i].optional_roll < 50 \/ locals[i].error_type = "invalid")

\* C8 witness: a record of error kind invalid whose four fields are filled
\* although the draw failed, after a record that has them empty
C8_Witness ==
    \E i, j \in DOMAIN data :
        /\ locals[i].error_type = "invalid" /\ locals[i].optional_roll >= 50
        /\ \A f \in OptionalFields : data[i][f] # ""
        /\ locals[j].error_type # "invalid"
        /\ \A f \in OptionalFields : data[j][f] = ""

\* every material slot of the record has a name exactly when it has a
\* percentage
SlotsPaired(row) ==
    /\ (row.material_1_name = "") <=> (row.material_1_percentage = "")
    /\ (row.material_2_name = "") <=> (row.material_2_percentage = "")
    /\ (row.material_3_name = "") <=> (row.material_3_percentage = "")

\* C9: in every record emitted by either script, each material slot has an
\* empty name if and only if it has an empty percentage.
C9_MaterialSlotsPaired ==
    /\ \A i \in DOMAIN data : SlotsPaired(data[i])
    /\ csv_base # NoRow => SlotsPaired(csv_base)
    /\ (csv_row # NoRow /\ csv_fn # 6) => SlotsPaired(csv_row)

(***************************************************************************)
(* The duplicates scenario at the size the resampling is documented for:   *)
(* generate-test-data.py --scenario duplicates --rows DupRows --seed n,    *)
(* followed up to the end of generate().                                   *)
(***************************************************************************)
InitDup ==
    /\ script = "generate-test-data.py"
    /\ scenario = "duplicates"
    /\ rows = DupRows
    /\ seed_arg \in 1..MaxDupSeed
    /\ run = 1
    /\ hashseed \in 0..MaxHashSeed
    /\ pc = "main"
    /\ seed = 0 /\ rng = 0
    /\ generated_upids = {} /\ generated_skus = {}
    /\ data = <<>> /\ locals = <<>>
    /\ file = NoFile
    /\ exit_code = NotExited
    /\ first = [file |-> NoFile, exit_code |-> NotExited]
    /\ CsvIdle

NextDup ==
    \/ Construct
    \/ GenerateRow

SpecDup == InitDup /\ [][NextDup]_vars

\* some record after the first repeats the upid or the sku of an earlier one
SomeRepeat ==
    \E i, j \in DOMAIN data :
        /\ i < j
        /\ \/ (data[i].upid # "" /\ data[i].upid = data[j].upid)
           \/ (data[i].sku # "" /\ data[i].sku = data[j].sku)

\* C10 as claimed: with scenario=duplicates and more than 10 rows, the
\* generated records hold at least one record whose upid or sku repeats
\* that of an earlier record.
C10_DuplicatesRepeat ==
    (scenario = "duplicates" /\ rows > 10 /\ pc = "generate" /\ Len(data) = rows)
        => SomeRepeat

\* C10 amended: with scenario=duplicates a record whose upid was taken
\* from the UPIDs generated so far repeats the upid of an earlier record,
\* and one whose sku was taken from the SKUs generated so far repeats the
\* sku of an earlier record; the first record resamples nothing.  (Each
\* resampling is a 30% draw, so no repeat is promised for any row count.)
C10_ResampledRepeats ==
    scenario = "duplicates" =>
        \A j \in DOMAIN data :
            /\ locals[j].upid_resampled =>
                  /\ j > 1
                  /\ \E i \in 1..(j - 1) : data[i].upid = data[j].upid
            /\ locals[j].sku_resampled =>
                  /\ j > 1
                  /\ \E i \in 1..(j - 1) : data[i].sku = data[j].sku

\* C10 witness: a finished duplicates run of more than 10 rows in which a
\* record resampled its upid and a record resampled its sku
C10_Witness ==
    /\ scenario = "duplicates" /\ rows > 10 /\ Len(data) = rows
    /\ \E j \in DOMAIN data : locals[j].upid_resampled
    /\ \E j \in DOMAIN data : locals[j].sku_resampled

\* the catalog values of a record are empty or taken from the given pools
CatalogValuesFrom(row, colors, sizes, categories) ==
    /\ row.color_name \in Range(colors) \cup {""}
    /\ row.size_name \in Range(sizes) \cup {""}
    /\ row.category_name \in Range(categories) \cup {""}

\* the catalog values of a record avoid the given pools
CatalogValuesOutside(row, colors, sizes, categories) ==
    /\ row.color_name \notin Range(colors)
    /\ row.size_name \notin Range(sizes)
    /\ row.category_name \notin Range(categories)

\* C11: generate_base_row, called at any point a run reaches, takes every
\* non-empty color_name, size_name and category_name from the valid pool
\* when use_valid_values is true and from the unmapped pool otherwise; each
\* valid pool is disjoint from its unmapped pool; so no record of
\* generate_valid_csv holds an unmapped value and no record of
\* generate_unmapped_csv holds a valid one.
C11_CatalogPools ==
    /\ Range(CSV_VALID_COLORS) \cap Range(CSV_UNMAPPED_COLORS) = {}
    /\ Range(CSV_VALID_SIZES) \cap Range(CSV_UNMAPPED_SIZES) = {}
    /\ Range(CSV_VALID_CATEGORIES) \cap Range(CSV_UNMAPPED_CATEGORIES) = {}
    /\ (script = "generate_test_csvs.py" /\ csv_pc = "rows") =>
          /\ CatalogValuesFrom(generate_base_row(csv_i, TRUE, csv_rng).row,
                 CSV_VALID_COLORS, CSV_VALID_SIZES, CSV_VALID_CATEGORIES)
          /\ CatalogValuesFrom(generate_base_row(csv_i, FALSE, csv_rng).row,
                 CSV_UNMAPPED_COLORS, CSV_UNMAPPED_SIZES,
                 CSV_UNMAPPED_CATEGORIES)
    /\ (csv_fn = 1 /\ csv_row # NoRow) =>
          /\ CatalogValuesFrom(csv_row, CSV_VALID_COLORS, CSV_VALID_SIZES,
                               CSV_VALID_CATEGORIES)
          /\ CatalogValuesOutside(csv_row, CSV_UNMAPPED_COLORS,
                                  CSV_UNMAPPED_SIZES, CSV_UNMAPPED_CATEGORIES)
    /\ (csv_fn = 3 /\ csv_row # NoRow) =>
          /\ CatalogValuesFrom(csv_row, CSV_UNMAPPED_COLORS,
                               CSV_UNMAPPED_SIZES, CSV_UNMAPPED_CATEGORIES)
          /\ CatalogValuesOutside(csv_row, CSV_VALID_COLORS, CSV_VALID_SIZES,
                                  CSV_VALID_CATEGORIES)

\* C11 witness: generate_unmapped_csv has written a record that carries a
\* color, a size and a category
C11_Witness ==
    /\ csv_fn = 3 /\ csv_row # NoRow /\ Len(csv_file.lines) >= 2
    /\ csv_row.color_name # "" /\ csv_row.size_name # ""
    /\ csv_row.category_name # ""

\* C12: generate() with rows = n calls generate_row once for each row
\* number 1, 2, ..., n in increasing order and returns the n records in that
\* order; write_csv then writes the header followed by exactly n data rows
\* of 19 columns, the records in order.
C12_OneRecordPerRow ==
    (script = "generate-test-data.py" /\ rows >= 0) =>
        /\ Len(data) <= rows
        /\ Len(locals) = Len(data)
        /\ \A i \in DOMAIN locals : locals[i].row_number = i
        /\ (pc \in {"writeheader", "writerows"} \/ (pc = "exit" /\ exit_code = 0))
              => Len(data) = rows
        /\ (pc = "exit" /\ exit_code = 0) =>
              /\ Len(file.lines) = rows + 1
              /\ file.lines[1] = fieldnames
              /\ \A i \in 1..rows :
                    /\ Len(file.lines[i + 1]) = 19
                    /\ file.lines[i + 1] = writerow(fieldnames, data[i])

\* C12 witness: a run of several rows has written its file and ended
C12_Witness ==
    /\ script = "generate-test-data.py"
    /\ pc = "exit" /\ exit_code = 0 /\ rows >= 2
    /\ Len(file.lines) = rows + 1

\* C13: main of generate-test-data.py called with a row count below 1 ends
\* with a non-zero exit status before a generator is constructed, a row is
\* generated or the output file is opened.
C13_RowsBelowOneRejected ==
    (script = "generate-test-data.py" /\ rows < 1) =>
        /\ pc \in {"main", "exit"}
        /\ seed = 0 /\ rng = 0
        /\ generated_upids = {} /\ generated_skus = {}
        /\ data = <<>> /\ locals = <<>>
        /\ file = NoFile
        /\ pc = "exit" => exit_code = 1

\* C13 witness: the second of two runs with --rows 0 has been rejected
C13_Witness ==
    /\ script = "generate-test-data.py" /\ rows = 0
    /\ run = 2 /\ pc = "exit" /\ exit_code # 0 /\ first.exit_code # 0

\* C14: generate_wrong_headers_csv writes a header of 19 column names none
\* of which is one of the 19 field names, and in every data row the value
\* under the k-th renamed column is the value generate_base_row produced
\* for the k-th field name, for every position k.
C14_WrongHeadersKeepValues ==
    (script = "generate_test_csvs.py" /\ csv_fn = 6) =>
        /\ CsvHeaderWritten =>
              /\ csv_file.lines[1] = wrong_headers
              /\ Len(csv_file.lines[1]) = 19
              /\ Len(get_base_headers) = 19
              /\ Range(csv_file.lines[1]) \cap Range(get_base_headers) = {}
        /\ (csv_pc \in {"rows", "exit"} /\ csv_row # NoRow) =>
              \A k \in 1..19 :
                  /\ csv_row[wrong_headers[k]] = csv_base[get_base_headers[k]]
                  /\ csv_file.lines[Len(csv_file.lines)][k]
                        = csv_base[get_base_headers[k]]

\* C14 witness: generate_wrong_headers_csv has written its header and all
\* its data rows
C14_Witness ==
    /\ script = "generate_test_csvs.py" /\ csv_fn = 6 /\ csv_pc = "rows"
    /\ csv_i = RowsOf(6) /\ csv_i >= 2
    /\ Len(csv_file.lines) = csv_i + 1
    /\ csv_row # NoRow /\ csv_base # NoRow

\* C15: with scenario=duplicates and a fixed non-zero seed, the identifier
\* returned when an emitted UPID or SKU is resampled depends on the seed and
\* on the rows emitted so far only, so two runs write the same upid (column
\* 2) and the same sku (column 3) in every row.
C15_ResampledIdentifiersRepeat ==
    (BothRunsDone /\ scenario = "duplicates" /\ seed_arg >= 1) =>
        \A i \in 2..Len(file.lines) :
            /\ file.lines[i][2] = first.file.lines[i][2]
            /\ file.lines[i][3] = first.file.lines[i][3]

\* C16: with scenario=duplicates no row with row number <= 10 takes its
\* upid or its sku by resampling the identifiers generated so far.
C16_NoResamplingInFirstTenRows ==
    scenario = "duplicates" =>
        \A i \in DOMAIN locals :
            locals[i].row_number <= 10 =>
                /\ ~locals[i].upid_resampled
                /\ ~locals[i].sku_resampled

\* a URL cell is empty or begins with https://
EmptyOrHttps(url) ==
    url = "" \/ (Len(url) >= 8 /\ SubSeq(url, 1, 8) = "https://")

\* C17: in scenarios valid, duplicates and missing_fields every record has
\* a product_name of at most 100 characters that is not the special-character
\* string, a description of at most 2000 characters, primary_image_url and
\* product_image_url empty or beginning with https://, and material
\* percentages that are not the pair (65, 50).
C17_NoViolationOutsideInvalid ==
    (script = "generate-test-data.py"
       /\ scenario \in {"valid", "duplicates", "missing_fields"}) =>
        \A i \in DOMAIN data :
            /\ Len(data[i].product_name) <= 100
            /\ data[i].product_name # SpecialCharsName
            /\ Len(data[i].description) <= 2000
            /\ EmptyOrHttps(data[i].primary_image_url)
            /\ EmptyOrHttps(data[i].product_image_url)
            /\ ~(data[i].material_1_percentage = "65"
                   /\ data[i].material_2_percentage = "50")

\* C17 witness: a missing_fields record with a name, a description and both
\* image URLs
C17_Witness ==
    /\ script = "generate-test-data.py" /\ scenario = "missing_fields"
    /\ \E i \in DOMAIN data :
          /\ data[i].product_name # "" /\ data[i].description # ""
          /\ data[i].primary_image_url # "" /\ data[i].product_image_url # ""

(***************************************************************************)
(* generate_duplicates_csv alone, with NUM_ROWS large enough for the       *)
(* back-references of every 100th row: main has reached its call, the      *)
(* generator is in any state.                                              *)
(***************************************************************************)
InitCsvDup ==
    /\ script = "generate_test_csvs.py"
    /\ NUM_ROWS = CsvDupRows
    /\ csv_pc = "open" /\ csv_fn = 2 /\ csv_i = 0
    /\ csv_rng \in 1..MaxCsvDupSeed
    /\ csv_base = NoRow /\ csv_row = NoRow /\ csv_file = NoFile
    /\ csv_exit = NotExited
    /\ GenIdle

NextCsvDup ==
    \/ CsvOpen
    \/ CsvWriteHeader
    \/ CsvWriteRow

SpecCsvDup == InitCsvDup /\ [][NextCsvDup]_vars

\* the upid (column 2) of the data row with loop index i of the file being
\* written
UpidOfRow(i) == csv_file.lines[i + 2][2]

\* the numeric suffix of the sku (column 3, SKU-XXX-nnnnn) of that row
SkuSuffixOfRow(i) ==
    SubSeq(csv_file.lines[i + 2][3], 9, Len(csv_file.lines[i + 2][3]))

\* C18: in generate_duplicates_csv, with n rows of index 0..n-1 written,
\* row i carries the UPID of row i-50 exactly when i > 0 and i % 100 = 0,
\* and every other row carries its own UPID-(100000+i); so each UPID occurs
\* in at most two rows, floor((n-1)/100) UPID values occur twice, and the
\* numeric suffixes of the SKUs are pairwise distinct.
C18_EveryHundredthRowRepeats ==
    (script = "generate_test_csvs.py" /\ csv_fn = 2 /\ CsvHeaderWritten) =>
        LET n == Len(csv_file.lines) - 1
            I == 0..(n - 1)
            twice == {u \in {UpidOfRow(i) : i \in I} :
                        Cardinality({k \in I : UpidOfRow(k) = u}) = 2}
        IN /\ \A i \in I :
                 IF i > 0 /\ i % 100 = 0
                 THEN UpidOfRow(i) = UpidOfRow(i - 50)
                 ELSE /\ UpidOfRow(i) = "UPID-" \o ToString(100000 + i)
                      /\ i >= 50 => UpidOfRow(i) # UpidOfRow(i - 50)
           /\ \A i \in I : Cardinality({k \in I : UpidOfRow(k) = UpidOfRow(i)}) <= 2
           /\ n >= 1 => Cardinality(twice) = (n - 1) \div 100
           /\ \A i, k \in I : i # k => SkuSuffixOfRow(i) # SkuSuffixOfRow(k)

\* C18 witness: generate_duplicates_csv has written row 100 with the UPID
\* of row 50
C18_Witness ==
    /\ script = "generate_test_csvs.py" /\ csv_fn = 2 /\ csv_pc = "rows"
    /\ csv_i > 100
    /\ UpidOfRow(100) = "UPID-100050" /\ UpidOfRow(50) = "UPID-100050"

\* the non-empty values of a field in the records generated so far
Emitted(field) == {data[i][field] : i \in DOMAIN data} \ {""}

\* C19: after any number of generate_row calls on one TestDataGenerator, in
\* every scenario, generated_upids is exactly the set of non-empty upid
\* values emitted so far and generated_skus exactly the set of non-empty sku
\* values emitted so far, each generate_row call leaves both pools at least
\* as large as it found them, and the 'Unique UPIDs' and 'Unique SKUs'
\* counts printed at the end are the numbers of distinct non-empty
\* identifiers in the data.
C19_PoolsMatchOutput ==
    /\ [](script = "generate-test-data.py" =>
            /\ generated_upids = Emitted("upid")
            /\ generated_skus = Emitted("sku")
            /\ (pc = "exit" /\ exit_code = 0) =>
                  /\ Cardinality(generated_upids) = Cardinality(Emitted("upid"))
                  /\ Cardinality(generated_skus) = Cardinality(Emitted("sku")))
    /\ [][(pc = "generate" /\ pc' = "generate") =>
             /\ generated_upids \subseteq generated_upids'
             /\ generated_skus \subseteq generated_skus']_vars

\* C19 witness: a finished mixed run in which one record has no identifiers
\* and another took its upid from the pool
C19_Witness ==
    /\ script = "generate-test-data.py" /\ scenario = "mixed"
    /\ pc = "exit" /\ exit_code = 0
    /\ \E i, j \in DOMAIN data :
          /\ data[i].upid = "" /\ data[i].sku = ""
          /\ locals[j].upid_resampled
    /\ generated_upids # {}
====
